---- MODULE Spec2Model ----
(***************************************************************************)
(* RemoteConfig (src/src/config.rs): a stale-while-revalidate cache of one *)
(* value loaded from a DataProvider.  The model follows load_with_time     *)
(* statement by statement: every access to shared state (the ArcSwap       *)
(* cached_response, the tokio Mutex revalidator and the                    *)
(* revalidation_error it guards) is one step of the calling reader or of   *)
(* the spawned revalidation task, and steps of different readers and tasks *)
(* interleave freely.                                                      *)
(***************************************************************************)
EXTENDS Integers, Sequences, FiniteSets, TLC

\* ---------------------------------------------------------------- bounds
NumReaders == 2      \* concurrent callers of load / load_with_time
MaxTime == 1         \* SystemTime values are 0..MaxTime
MaxAttempts == 2     \* revalidation tasks spawned in one behaviour
MaxRetry == 1        \* retry_interval is 0..MaxRetry
MaxAge == 1          \* Cache-Control max-age is 0..MaxAge seconds

Readers == 1..NumReaders
Times == 0..MaxTime

VARIABLES
    now,                 \* SystemTime::now()
    retry_interval,      \* RemoteConfig.retry_interval
    arcs,                \* every Arc<DataLoadResult> allocated so far
    cached_response,     \* RemoteConfig.cached_response: index into arcs
    errs,                \* every Arc<DataProviderError> allocated so far
    revalidation_error,  \* Revalidator.revalidation_error: 0 (None) or index into errs
    owner,               \* holder of the revalidator Mutex
    waiters,             \* FIFO queue of readers suspended in revalidator.lock()
    tasks,               \* the tasks spawned at config.rs:198, in spawn order
    pc,                  \* position of each reader inside load_with_time
    time,                \* the `time` argument of each reader's call
    curr,                \* the `curr` snapshot of each reader's call: index into arcs
    result,              \* what each reader's call returned
    failed_during,       \* task holding the Mutex when the reader's try_lock failed (0: none)
    waited_on,           \* task holding the Mutex while the reader was queued (0: none)
    construction,        \* progress and outcome of RemoteConfig::new
    features,            \* cargo features the crate is built with
    response,            \* the reqwest Response handed to SerdeDataExtractor::extract
    extracted,           \* what extract returned for `response`
    handles              \* live Arc<RemoteConfig> handles: the strong references

vars == <<now, retry_interval, arcs, cached_response, errs, revalidation_error,
          owner, waiters, tasks, pc, time, curr, result, failed_during,
          waited_on, construction, features, response, extracted, handles>>

\* What load_with_time and the revalidation task never touch.
outside == <<construction, features, response, extracted, handles>>

\* ------------------------------------------------------------ data types
\* DataLoadResult (data_provider.rs:7-14).  The payload is opaque to
\* RemoteConfig; the provider's n-th successful load carries payload n.
DataLoadResults(n) ==
    [data : {n}, must_revalidate : BOOLEAN, valid_until : Times]

\* LoadResult<Data> = Result<CachedData<Data>, Arc<DataProviderError>>
\* (config.rs:121); a panic of the call is a third outcome.
Ok(i) == [kind |-> "Ok", ref |-> i]
Err(j) == [kind |-> "Err", ref |-> j]
Panicked == [kind |-> "Panic", ref |-> 0]
NoResult == [kind |-> "None", ref |-> 0]

\* Holder of the tokio Mutex `revalidator` (config.rs:74).
Free == [kind |-> "none", id |-> 0]
ReaderOwner(r) == [kind |-> "reader", id |-> r]
TaskOwner(k) == [kind |-> "task", id |-> k]

\* Outcome of RemoteConfig::new (config.rs:128-145): how far the call got,
\* how often it called load_data, the result it loaded, and the timestamp
\* of the DataProviderError it returned (-1: none).
NewState(p, n, l, e) == [pc |-> p, calls |-> n, loaded |-> l, err |-> e]

\* No response has been handed to an extractor (http.rs:45-48 not reached).
NoResponse == [status |-> "none"]
NotExtracted == [kind |-> "None"]

\* ------------------------------------------------------- initial state
\* RemoteConfig::new (config.rs:128-145) has returned Ok: one successful
\* load_data, no remembered error, the Mutex free.
Init ==
    /\ now = 0
    /\ retry_interval \in 0..MaxRetry
    /\ \E first \in DataLoadResults(1) : arcs = <<first>>
    /\ cached_response = 1
    /\ errs = <<>>
    /\ revalidation_error = 0
    /\ owner = Free
    /\ waiters = <<>>
    /\ tasks = <<>>
    /\ pc = [r \in Readers |-> "idle"]
    /\ time = [r \in Readers |-> 0]
    /\ curr = [r \in Readers |-> 1]
    /\ result = [r \in Readers |-> NoResult]
    /\ failed_during = [r \in Readers |-> 0]
    /\ waited_on = [r \in Readers |-> 0]
    /\ construction = NewState("ok", 1, arcs, -1)
    /\ features = {}
    /\ response = NoResponse
    /\ extracted = NotExtracted
    /\ handles = {}

\* ------------------------------------------------------------- helpers
\* config.rs:161  `curr.valid_until < time`
IsStaleInverted(snap, t) == snap.valid_until > t
IsStale(snap, t) == snap.valid_until < t

\* config.rs:162  `self.revalidator.try_lock()` succeeds iff nobody holds
\* the Mutex; tokio hands a released Mutex directly to the first queued
\* waiter, so it is never free while a reader is queued.
TryLockIgnoresHolder == TRUE
TryLockOk == owner = Free

\* config.rs:165  `if curr.must_revalidate` after a failed try_lock
WaitForRevalidation(snap) == snap.must_revalidate

\* config.rs:220  `if curr.must_revalidate` after the spawn
WaitForHandleAlways(snap) == TRUE
WaitForHandle(snap) == snap.must_revalidate

\* config.rs:188-189  a failure is remembered and it is too early to retry
InBackoffIgnoresInterval(t) ==
    /\ revalidation_error # 0
    /\ t < errs[revalidation_error].timestamp
InBackoffClosed(t) ==
    /\ revalidation_error # 0
    /\ t <= errs[revalidation_error].timestamp + retry_interval
InBackoff(t) ==
    /\ revalidation_error # 0
    /\ t < errs[revalidation_error].timestamp + retry_interval

\* config.rs:190-194  the quick return inside the retry interval
BackoffResultAlwaysErr(r) == Err(revalidation_error)
BackoffResult(r) ==
    IF arcs[curr[r]].must_revalidate THEN Err(revalidation_error) ELSE Ok(curr[r])

\* config.rs:201  `Arc::new(load_result)`: a new allocation, the Arcs that
\* readers and the cache already hold are left alone.
StoreInPlace(res) == [arcs EXCEPT ![cached_response] = res]
NewArc(res) == Append(arcs, res)

\* config.rs:205-216  the Err arm does not touch cached_response
CachedAfterErrorRestoresCurr(k) == tasks[k].obs
CachedAfterError(k) == cached_response

\* Dropping a MutexGuard (tokio Mutex, FIFO): the Mutex goes to the first
\* reader suspended in lock(), which resumes at config.rs:169.
NextOwnerLeaked == owner
NextOwnerNoHandoff == Free
NextOwner == IF waiters = <<>> THEN Free ELSE ReaderOwner(Head(waiters))
RestWaiters == IF waiters = <<>> THEN <<>> ELSE Tail(waiters)
WakeNobody(p) == p
Wake(p) == IF waiters = <<>> THEN p ELSE [p EXCEPT ![Head(waiters)] = "guard"]

Queued == {waiters[i] : i \in 1..Len(waiters)}

\* The JoinHandle a reader got from its own spawn (config.rs:198).
HandleOf(r) ==
    CHOOSE k \in 1..Len(tasks) :
        /\ tasks[k].by = r
        /\ \A j \in (k+1)..Len(tasks) : tasks[j].by # r

\* Readers whose call in progress may still reach the spawn.
MaySpawn == {r \in Readers : pc[r] \in {"try_lock", "locked"}}

Loading == {k \in 1..Len(tasks) : tasks[k].st = "loading"}

\* ------------------------------------------------------ reader actions
\* config.rs:158-161 and 231-232: bind `time`, load `curr`, test freshness;
\* fresh data is returned at once.
LoadWithTime(r, t) ==
    /\ pc[r] \in {"idle", "done"}
    /\ IsStale(arcs[cached_response], t) => Len(tasks) + Cardinality(MaySpawn) < MaxAttempts
    /\ time' = [time EXCEPT ![r] = t]
    /\ curr' = [curr EXCEPT ![r] = cached_response]
    /\ failed_during' = [failed_during EXCEPT ![r] = 0]
    /\ waited_on' = [waited_on EXCEPT ![r] = 0]
    /\ IF IsStale(arcs[cached_response], t)
       THEN /\ pc' = [pc EXCEPT ![r] = "try_lock"]
            /\ result' = [result EXCEPT ![r] = NoResult]
       ELSE /\ pc' = [pc EXCEPT ![r] = "done"]
            /\ result' = [result EXCEPT ![r] = Ok(cached_response)]
    /\ UNCHANGED <<now, retry_interval, arcs, cached_response, errs,
                   revalidation_error, owner, waiters, tasks>>

\* config.rs:236-238: load() is load_with_time(SystemTime::now()).
Load(r) == LoadWithTime(r, now)

\* config.rs:162-165 and 177-185: try_lock, and on failure the choice
\* between waiting and returning the stale `curr`.
TryLock(r) ==
    /\ pc[r] = "try_lock"
    /\ IF TryLockOk
       THEN /\ owner' = ReaderOwner(r)
            /\ pc' = [pc EXCEPT ![r] = "locked"]
            /\ UNCHANGED <<result, failed_during>>
       ELSE /\ failed_during' =
                [failed_during EXCEPT
                    ![r] = IF owner.kind = "task" THEN owner.id ELSE 0]
            /\ IF WaitForRevalidation(arcs[curr[r]])
               THEN /\ pc' = [pc EXCEPT ![r] = "lock"]
                    /\ UNCHANGED result
               ELSE /\ pc' = [pc EXCEPT ![r] = "done"]
                    /\ result' = [result EXCEPT ![r] = Ok(curr[r])]
            /\ UNCHANGED owner
    /\ UNCHANGED <<now, retry_interval, arcs, cached_response, errs,
                   revalidation_error, waiters, tasks, time, curr,
                   waited_on>>

\* config.rs:167: `self.revalidator.lock().await` takes a free Mutex at
\* once, else the reader is suspended at the tail of the FIFO queue.
Lock(r) ==
    /\ pc[r] = "lock"
    /\ IF owner = Free
       THEN /\ owner' = ReaderOwner(r)
            /\ pc' = [pc EXCEPT ![r] = "guard"]
            /\ UNCHANGED <<waiters, waited_on>>
       ELSE /\ waiters' = Append(waiters, r)
            /\ pc' = [pc EXCEPT ![r] = "queued"]
            /\ waited_on' =
                [waited_on EXCEPT
                    ![r] = IF owner.kind = "task" THEN owner.id ELSE 0]
            /\ UNCHANGED owner
    /\ UNCHANGED <<now, retry_interval, arcs, cached_response, errs,
                   revalidation_error, tasks, time, curr, result,
                   failed_during>>

\* config.rs:175  `Ok(CachedData(self.cached_response.load()))`
WaiterOkInitial(r) == Ok(1)
WaiterOk(r) == Ok(cached_response)

\* config.rs:169-176: holding the guard, return the remembered error or,
\* when there is none, whatever cached_response holds; the guard is dropped.
WaiterReturn(r) ==
    /\ pc[r] = "guard"
    /\ result' =
        [result EXCEPT
            ![r] = IF revalidation_error # 0
                   THEN Err(revalidation_error)
                   ELSE WaiterOk(r)]
    /\ pc' = Wake([pc EXCEPT ![r] = "done"])
    /\ owner' = NextOwner
    /\ waiters' = RestWaiters
    /\ UNCHANGED <<now, retry_interval, arcs, cached_response, errs,
                   revalidation_error, tasks, time, curr, failed_during,
                   waited_on>>

\* config.rs:187-196: holding the guard inside the retry interval, return
\* without calling the provider; the guard is dropped.
BackoffReturn(r) ==
    /\ pc[r] = "locked"
    /\ InBackoff(time[r])
    /\ result' = [result EXCEPT ![r] = BackoffResult(r)]
    /\ pc' = Wake([pc EXCEPT ![r] = "done"])
    /\ owner' = NextOwner
    /\ waiters' = RestWaiters
    /\ UNCHANGED <<now, retry_interval, arcs, cached_response, errs,
                   revalidation_error, tasks, time, curr, failed_during,
                   waited_on>>

\* config.rs:198 and 220-226: spawn the revalidation task, moving the guard
\* into it; a must_revalidate caller awaits the handle, any other returns
\* the stale `curr` at once.
Spawn(r) ==
    /\ pc[r] = "locked"
    /\ ~InBackoff(time[r])
    /\ tasks' = Append(tasks,
                    [st |-> "spawned", by |-> r, obs |-> curr[r],
                     t |-> time[r], cached0 |-> cached_response,
                     res |-> NoResult])
    /\ owner' = TaskOwner(Len(tasks) + 1)
    /\ waited_on' =
        [q \in Readers |->
            IF q \in Queued THEN Len(tasks) + 1 ELSE waited_on[q]]
    /\ IF WaitForHandle(arcs[curr[r]])
       THEN /\ pc' = [pc EXCEPT ![r] = "await"]
            /\ UNCHANGED result
       ELSE /\ pc' = [pc EXCEPT ![r] = "done"]
            /\ result' = [result EXCEPT ![r] = Ok(curr[r])]
    /\ UNCHANGED <<now, retry_interval, arcs, cached_response, errs,
                   revalidation_error, waiters, time, curr, failed_during>>

\* config.rs:222: `handle.await.unwrap()` yields the task's own return
\* value, and panics when the task panicked.
JoinResultSwallowsPanic(k) ==
    IF tasks[k].res = Panicked THEN Ok(cached_response) ELSE tasks[k].res
JoinResult(k) == tasks[k].res

Join(r) ==
    /\ pc[r] = "await"
    /\ tasks[HandleOf(r)].st = "done"
    /\ result' = [result EXCEPT ![r] = JoinResult(HandleOf(r))]
    /\ pc' = [pc EXCEPT ![r] = "done"]
    /\ UNCHANGED <<now, retry_interval, arcs, cached_response, errs,
                   revalidation_error, owner, waiters, tasks, time, curr,
                   failed_during, waited_on>>

\* ------------------------------------------- revalidation task actions
\* config.rs:199: the task is polled and calls data_provider.load_data().
TaskStart(k) ==
    /\ tasks[k].st = "spawned"
    /\ tasks' = [tasks EXCEPT ![k].st = "loading"]
    /\ UNCHANGED <<now, retry_interval, arcs, cached_response, errs,
                   revalidation_error, owner, waiters, pc, time, curr,
                   result, failed_during, waited_on>>

\* config.rs:198-203: `guard` was moved into the task and is not dropped
\* by the store; the task keeps the Mutex.
OwnerAfterStoreReleased(k) == NextOwner
OwnerAfterStore(k) == owner

\* config.rs:201  `cached_response.store(..)` swaps the new Arc in: it is
\* what cached_response.load() yields from now on.
StoredKeepsOld(a) == cached_response
Stored(a) == Len(a)

\* config.rs:200-201: load_data returned Ok(load_result); it is stored.
TaskStore(k, res) ==
    /\ tasks[k].st = "loading"
    /\ arcs' = NewArc(res)
    /\ cached_response' = Stored(arcs')
    /\ tasks' = [tasks EXCEPT ![k].st = "stored"]
    /\ owner' = OwnerAfterStore(k)
    /\ UNCHANGED <<now, retry_interval, errs, revalidation_error,
                   waiters, pc, time, curr, result, failed_during,
                   waited_on>>

\* config.rs:202-203 and the end of the task: the remembered error is
\* cleared, the task returns Ok(cached_response.load()), the guard drops.
ErrorAfterOkKept(k) == revalidation_error
ErrorAfterOk(k) == 0

\* config.rs:203  the task returns `Ok(CachedData(self.cached_response.load()))`
TaskOkResultObserved(k) == Ok(tasks[k].obs)
TaskOkResult(k) == Ok(cached_response)

TaskFinishOk(k) ==
    /\ tasks[k].st = "stored"
    /\ revalidation_error' = ErrorAfterOk(k)
    /\ tasks' = [tasks EXCEPT ![k].st = "done", ![k].res = TaskOkResult(k)]
    /\ owner' = NextOwner
    /\ waiters' = RestWaiters
    /\ pc' = Wake(pc)
    /\ UNCHANGED <<now, retry_interval, arcs, cached_response, errs, time,
                   curr, result, failed_during, waited_on>>

\* config.rs:205-216 with 101-108: load_data returned Err; it is wrapped
\* with SystemTime::now() in a new Arc and remembered; the guard drops.
TaskErr(k) ==
    /\ tasks[k].st = "loading"
    /\ errs' = Append(errs, [timestamp |-> now])
    /\ revalidation_error' = Len(errs) + 1
    /\ cached_response' = CachedAfterError(k)
    /\ tasks' = [tasks EXCEPT ![k].st = "done", ![k].res = Err(Len(errs) + 1)]
    /\ owner' = NextOwner
    /\ waiters' = RestWaiters
    /\ pc' = Wake(pc)
    /\ UNCHANGED <<now, retry_interval, arcs, time, curr, result,
                   failed_during, waited_on>>

\* config.rs:156-157: load_data panics; the task unwinds, which drops the
\* guard and leaves the guarded state as it was.
ErrorAfterPanicCleared(k) == 0
ErrorAfterPanic(k) == revalidation_error

TaskPanic(k) ==
    /\ tasks[k].st = "loading"
    /\ tasks' = [tasks EXCEPT ![k].st = "done", ![k].res = Panicked]
    /\ revalidation_error' = ErrorAfterPanic(k)
    /\ owner' = NextOwner
    /\ waiters' = RestWaiters
    /\ pc' = Wake(pc)
    /\ UNCHANGED <<now, retry_interval, arcs, cached_response, errs,
                   time, curr, result, failed_during, waited_on>>

\* The system clock advances.
Tick ==
    /\ now < MaxTime
    /\ now' = now + 1
    /\ UNCHANGED <<retry_interval, arcs, cached_response, errs,
                   revalidation_error, owner, waiters, tasks, pc, time,
                   curr, result, failed_during, waited_on>>

\* Every step of a call after its entry, and every step of a task.
Progress ==
    \/ \E r \in Readers : TryLock(r)
    \/ \E r \in Readers : Lock(r)
    \/ \E r \in Readers : WaiterReturn(r)
    \/ \E r \in Readers : BackoffReturn(r)
    \/ \E r \in Readers : Spawn(r)
    \/ \E r \in Readers : Join(r)
    \/ \E k \in 1..Len(tasks) : TaskStart(k)
    \/ \E k \in 1..Len(tasks), res \in DataLoadResults(Len(arcs) + 1) : TaskStore(k, res)
    \/ \E k \in 1..Len(tasks) : TaskFinishOk(k)
    \/ \E k \in 1..Len(tasks) : TaskErr(k)
    \/ \E k \in 1..Len(tasks) : TaskPanic(k)
    \/ Tick

Next ==
    \/ (\E r \in Readers : Load(r)) /\ UNCHANGED outside
    \/ (\E r \in Readers, t \in Times : LoadWithTime(r, t)) /\ UNCHANGED outside
    \/ Progress /\ UNCHANGED outside

Spec == Init /\ [][Next]_vars

\* ================================================================ claims
Snap(r) == arcs[curr[r]]
TaskIds == 1..Len(tasks)

\* C1: at most one call of load_data is in progress at any time, whatever
\* the number of concurrent callers and the interleaving of their steps.
C1_SingleProviderCall == Cardinality(Loading) <= 1

\* C1 witness: load_data is in progress while one caller awaits its handle
\* and another is suspended in lock().
C1_Witness ==
    /\ Loading # {}
    /\ \E r, q \in Readers : pc[r] = "await" /\ pc[q] = "queued"

\* C2 (as claimed): readers that call load_with_time(t) on the same expired
\* must_revalidate snapshot, with no failure ever recorded and a provider
\* whose result is fresh at t, cause one provider call only: no second task
\* calls the provider for that snapshot and that t.
C2_ExactlyOnce ==
    \A i, j \in TaskIds :
        ~ /\ i < j
          /\ errs = <<>>
          /\ tasks[i].obs = tasks[j].obs
          /\ tasks[i].t = tasks[j].t
          /\ arcs[tasks[i].obs].must_revalidate
          /\ IsStale(arcs[tasks[i].obs], tasks[i].t)
          /\ tasks[i].res.kind = "Ok"
          /\ ~IsStale(arcs[tasks[i].res.ref], tasks[i].t)
          /\ tasks[j].st # "spawned"

\* C3 (as claimed): every reader whose try_lock failed while task k held
\* the Mutex and who was then suspended in lock() returns the outcome of
\* task k, hence the same outcome as every other such reader.
C3_TryLockFailersAgree ==
    \A r \in Readers :
        (pc[r] = "done" /\ failed_during[r] # 0 /\ waited_on[r] # 0) =>
            /\ tasks[failed_during[r]].res.kind \in {"Ok", "Err"} =>
                   result[r] = tasks[failed_during[r]].res
            /\ \A q \in Readers :
                   (pc[q] = "done" /\ failed_during[q] = failed_during[r]
                        /\ waited_on[q] # 0) => result[q] = result[r]

\* C3 (amended): every reader that was suspended in lock() while task k
\* held the Mutex returns the outcome of task k (the error it recorded or
\* the snapshot it published), and the same outcome as every other reader
\* suspended during task k.
C3_CoWaitersAgree ==
    \A r \in Readers :
        (pc[r] = "done" /\ waited_on[r] # 0) =>
            /\ tasks[waited_on[r]].res.kind \in {"Ok", "Err"} =>
                   result[r] = tasks[waited_on[r]].res
            /\ \A q \in Readers :
                   (pc[q] = "done" /\ waited_on[q] = waited_on[r]) =>
                       result[q] = result[r]

\* C3 witness: two readers were suspended during the same task and both
\* have returned its outcome.
C3_Witness ==
    \E r, q \in Readers :
        /\ r # q
        /\ pc[r] = "done" /\ pc[q] = "done"
        /\ waited_on[r] # 0 /\ waited_on[q] = waited_on[r]
        /\ result[r] = tasks[waited_on[r]].res
        /\ result[q] = result[r]

\* C4 (as claimed): a call that observed an expired must_revalidate
\* snapshot never returns Ok with that same snapshot (stated for the runs
\* in which no provider call panicked).
C4_NeverReturnsExpired ==
    (\A k \in TaskIds : tasks[k].res.kind # "Panic") =>
        \A r \in Readers :
            (pc[r] = "done" /\ Snap(r).must_revalidate
                 /\ Snap(r).valid_until < time[r]) =>
                result[r] # Ok(curr[r])

\* C5: a call whose observed snapshot has must_revalidate = false is never
\* suspended in lock() and never awaits the task: it is at try_lock or holds
\* the fresh guard, and its next step is enabled whatever the others do.
C5_NeverWaits ==
    \A r \in Readers :
        ~Snap(r).must_revalidate =>
            /\ pc[r] \in {"idle", "try_lock", "locked", "done"}
            /\ pc[r] = "try_lock" => ENABLED TryLock(r)
            /\ pc[r] = "locked" => ENABLED (BackoffReturn(r) \/ Spawn(r))

\* C5 witness: a stale read of a non-mandatory snapshot has returned while
\* load_data is still in progress.
C5_Witness ==
    \E r \in Readers :
        /\ pc[r] = "done"
        /\ ~Snap(r).must_revalidate
        /\ IsStale(Snap(r), time[r])
        /\ result[r] = Ok(curr[r])
        /\ Loading # {}

\* C6: a call with t earlier than the current snapshot's expiry returns Ok
\* with the current snapshot in its first step and changes neither the
\* tasks, the Mutex, the cached snapshot nor the remembered failure.
C6_FreshPath ==
    [][\A r \in Readers, t \in Times :
        (LoadWithTime(r, t) /\ t < arcs[cached_response].valid_until) =>
            /\ pc'[r] = "done"
            /\ result'[r] = Ok(cached_response)
            /\ UNCHANGED <<tasks, owner, waiters, cached_response, arcs,
                           revalidation_error, errs>>]_vars

\* C6 witness: a read before the expiry has returned the current snapshot
\* while a revalidation task holds the Mutex.
C6_Witness ==
    \E r \in Readers :
        /\ pc[r] = "done"
        /\ time[r] < Snap(r).valid_until
        /\ result[r] = Ok(curr[r])
        /\ curr[r] = cached_response
        /\ owner.kind = "task"

\* C7: the step in which a task's load_data reports an error leaves the
\* cached snapshot the one it was when the task was spawned and the Arcs
\* untouched; it replaces the remembered failure by the new error.
C7_FailureKeepsSnapshot ==
    [][\A k \in TaskIds :
        (tasks[k].st = "loading" /\ tasks'[k].res.kind = "Err") =>
            /\ cached_response' = tasks[k].cached0
            /\ cached_response' = cached_response
            /\ arcs' = arcs
            /\ revalidation_error' = tasks'[k].res.ref
            /\ revalidation_error' # revalidation_error]_vars

\* C7 witness: a task that was spawned by a reader holding a replaced
\* snapshot has failed; the cache still holds the newer snapshot.
C7_Witness ==
    \E k \in TaskIds :
        /\ tasks[k].res.kind = "Err"
        /\ revalidation_error = tasks[k].res.ref
        /\ tasks[k].obs # tasks[k].cached0
        /\ cached_response = tasks[k].cached0

\* C8: a call whose observed snapshot has must_revalidate = false returns
\* Ok with the snapshot it observed in its first step, never Err or a panic.
C8_NonMandatoryNeverErr ==
    \A r \in Readers :
        (pc[r] = "done" /\ ~Snap(r).must_revalidate) =>
            result[r] = Ok(curr[r])

\* C8 witness: inside the retry interval of a remembered failure a stale
\* non-mandatory read has returned the last good value.
C8_Witness ==
    \E r \in Readers :
        /\ pc[r] = "done"
        /\ ~Snap(r).must_revalidate
        /\ IsStale(Snap(r), time[r])
        /\ InBackoff(time[r])
        /\ result[r] = Ok(curr[r])
        /\ curr[r] = cached_response

\* C9 (as claimed): while a failure with timestamp f is remembered, no
\* task starts load_data at a clock reading earlier than f + retry_interval.
C9_BackoffSpacing ==
    [][\A k \in TaskIds :
        (tasks[k].st = "spawned" /\ tasks'[k].st = "loading"
             /\ revalidation_error # 0) =>
            now >= errs[revalidation_error].timestamp + retry_interval]_vars

\* C10: no step changes an Arc<DataLoadResult> that exists: the data,
\* expiry and flag a handle or the cache refers to stay what they were.
C10_SnapshotsImmutable ==
    [][\A i \in 1..Len(arcs) : Len(arcs') >= i /\ arcs'[i] = arcs[i]]_vars

\* C10 witness: a returned handle refers to a snapshot that has since been
\* replaced in the cache by one with another payload.
C10_Witness ==
    \E r \in Readers :
        /\ pc[r] = "done"
        /\ result[r].kind = "Ok"
        /\ result[r].ref # cached_response
        /\ arcs[result[r].ref].data # arcs[cached_response].data

\* ================================================== RemoteConfig::new
\* Before RemoteConfig::new is called no RemoteConfig exists: no snapshot,
\* no Mutex, and nothing a reader could call load on.
InitNew ==
    /\ now = 0
    /\ retry_interval \in 0..MaxRetry
    /\ arcs = <<>>
    /\ cached_response = 0
    /\ errs = <<>>
    /\ revalidation_error = 0
    /\ owner = Free
    /\ waiters = <<>>
    /\ tasks = <<>>
    /\ pc = [r \in Readers |-> "idle"]
    /\ time = [r \in Readers |-> 0]
    /\ curr = [r \in Readers |-> 1]
    /\ result = [r \in Readers |-> NoResult]
    /\ failed_during = [r \in Readers |-> 0]
    /\ waited_on = [r \in Readers |-> 0]
    /\ construction = NewState("init", 0, <<>>, -1)
    /\ features = {}
    /\ response = NoResponse
    /\ extracted = NotExtracted
    /\ handles = {}

\* config.rs:133  `data_provider.load_data().await` is called.
NewCall ==
    /\ construction.pc = "init"
    /\ construction' = [construction EXCEPT !.pc = "loading", !.calls = @ + 1]
    /\ UNCHANGED <<now, retry_interval, arcs, cached_response, errs,
                   revalidation_error, owner, waiters, tasks, pc, time, curr,
                   result, failed_during, waited_on, features, response,
                   extracted, handles>>

\* config.rs:133  `.map_err(DataProviderError::from)?`: the error is wrapped
\* with SystemTime::now() (config.rs:101-108) and new returns it.
NewErrRetries(c) == [c EXCEPT !.pc = "init", !.err = now]
NewErrReturn(c) == [c EXCEPT !.pc = "failed", !.err = now]

NewErr ==
    /\ construction.pc = "loading"
    /\ construction' = NewErrReturn(construction)
    /\ UNCHANGED <<now, retry_interval, arcs, cached_response, errs,
                   revalidation_error, owner, waiters, tasks, pc, time, curr,
                   result, failed_during, waited_on, features, response,
                   extracted, handles>>

\* config.rs:134-144: load_data returned Ok(data); the RemoteConfig is built
\* with revalidation_error None, the data in a new Arc, a new Mutex.
NewOk(res) ==
    /\ construction.pc = "loading"
    /\ construction' = [construction EXCEPT !.pc = "ok", !.loaded = <<res>>]
    /\ arcs' = <<res>>
    /\ cached_response' = 1
    /\ revalidation_error' = 0
    /\ owner' = Free
    /\ UNCHANGED <<now, retry_interval, errs, waiters, tasks, pc, time, curr,
                   result, failed_during, waited_on, features, response,
                   extracted, handles>>

\* load_data panics inside new: the panic unwinds out of new.
NewPanic ==
    /\ construction.pc = "loading"
    /\ construction' = [construction EXCEPT !.pc = "panicked"]
    /\ UNCHANGED <<now, retry_interval, arcs, cached_response, errs,
                   revalidation_error, owner, waiters, tasks, pc, time, curr,
                   result, failed_during, waited_on, features, response,
                   extracted, handles>>

\* load and load_with_time take `&'static self` (config.rs:158, 236): they
\* can be called only on a RemoteConfig that new has returned.
NextNew ==
    \/ NewCall
    \/ \E res \in DataLoadResults(1) : NewOk(res)
    \/ NewErr
    \/ NewPanic
    \/ construction.pc = "ok" /\ Next
    \/ construction.pc # "ok" /\ Tick /\ UNCHANGED outside

SpecNew == InitNew /\ [][NextNew]_vars

\* C11: RemoteConfig::new calls load_data exactly once.  When the call
\* fails, new returns the wrapped error and no RemoteConfig exists (no
\* snapshot, no reader ever runs).  When it succeeds, the loaded result is
\* the first snapshot, and until a first revalidation task is spawned it
\* stays the current one with no remembered error and the Mutex not held by
\* any task; a task is spawned only by a read at a time past the expiry of
\* the snapshot it observed, so reads before expiry call the provider no
\* further.
C11_Construction ==
    /\ construction.calls <= 1
    /\ construction.pc # "init" => construction.calls = 1
    /\ construction.pc = "failed" =>
        /\ construction.err # -1
        /\ construction.loaded = <<>>
    /\ construction.pc # "ok" =>
        /\ arcs = <<>>
        /\ cached_response = 0
        /\ tasks = <<>>
        /\ \A r \in Readers : pc[r] = "idle"
    /\ construction.pc = "ok" =>
        /\ construction.err = -1
        /\ arcs[1] = construction.loaded[1]
        /\ tasks = <<>> =>
            /\ cached_response = 1
            /\ arcs = construction.loaded
            /\ revalidation_error = 0
            /\ errs = <<>>
            /\ owner.kind # "task"
        /\ (tasks = <<>> /\ \A r \in Readers : pc[r] \in {"idle", "done"}) =>
            owner = Free
        /\ \A k \in TaskIds :
            arcs[tasks[k].obs].valid_until < tasks[k].t

\* C11 witness: new succeeded, a reader then read the loaded snapshot
\* before its expiry, and the provider was not called again.
C11_Witness ==
    /\ construction.pc = "ok"
    /\ construction.calls = 1
    /\ tasks = <<>>
    /\ \E r \in Readers :
        /\ pc[r] = "done"
        /\ result[r] = Ok(1)
        /\ time[r] < arcs[1].valid_until

\* ============================================ detached revalidation task
\* The future of a call is dropped while it awaits the JoinHandle
\* (config.rs:222).  Dropping a JoinHandle detaches the task spawned at
\* config.rs:198: the task keeps the guard and keeps running.
Cancelled == [kind |-> "Cancelled", ref |-> 0]

Abandon(r) ==
    /\ pc[r] = "await"
    /\ pc' = [pc EXCEPT ![r] = "done"]
    /\ result' = [result EXCEPT ![r] = Cancelled]
    /\ UNCHANGED <<now, retry_interval, arcs, cached_response, errs,
                   revalidation_error, owner, waiters, tasks, time, curr,
                   failed_during, waited_on>>

\* The steps of the spawned tasks (config.rs:198-218).
TaskProgress ==
    \E k \in 1..Len(tasks) :
        \/ TaskStart(k)
        \/ \E res \in DataLoadResults(Len(arcs) + 1) : TaskStore(k, res)
        \/ TaskFinishOk(k)
        \/ TaskErr(k)
        \/ TaskPanic(k)

NextDetached ==
    \/ Next
    \/ (\E r \in Readers : Abandon(r)) /\ UNCHANGED outside

\* tokio::spawn (config.rs:198) hands the task to the runtime, which polls
\* it whenever it can make progress, whether or not a caller awaits its
\* JoinHandle; the provider call is taken to terminate.  No fairness is
\* assumed for the readers.
FairSpec ==
    /\ Init
    /\ [][NextDetached]_vars
    /\ WF_vars(TaskProgress /\ UNCHANGED outside)

\* C12: every spawned revalidation task eventually finishes and no longer
\* holds the Mutex, whatever its spawning caller does (returns at once,
\* keeps awaiting, or drops its call); a task that finished with Ok has
\* published a snapshot newer than the one current at its spawn, one that
\* finished with Err has recorded its error; and a call entered after a
\* task finished with Ok loads that snapshot or a later one.
C12_AttemptCompletes ==
    /\ \A k \in 1..MaxAttempts :
        (Len(tasks) >= k)
            ~> (Len(tasks) >= k /\ tasks[k].st = "done" /\ owner # TaskOwner(k))
    /\ [](\A k \in TaskIds :
            tasks[k].st = "done" =>
                /\ tasks[k].res.kind = "Ok" =>
                    /\ tasks[k].res.ref \in 1..Len(arcs)
                    /\ tasks[k].res.ref > tasks[k].cached0
                /\ tasks[k].res.kind = "Err" =>
                    tasks[k].res.ref \in 1..Len(errs))
    /\ [][\A r \in Readers, t \in Times :
            LoadWithTime(r, t) =>
                \A k \in TaskIds :
                    (tasks[k].st = "done" /\ tasks[k].res.kind = "Ok") =>
                        curr'[r] >= tasks[k].res.ref]_vars

\* C12 witness: a must_revalidate caller dropped its call while awaiting the
\* handle, its task then finished with Ok and released the Mutex, and a
\* later call of another reader returned the snapshot that task published.
C12_Witness ==
    \E k \in TaskIds, q \in Readers :
        /\ tasks[k].st = "done"
        /\ tasks[k].res.kind = "Ok"
        /\ result[tasks[k].by] = Cancelled
        /\ owner = Free
        /\ q # tasks[k].by
        /\ pc[q] = "done"
        /\ curr[q] = tasks[k].res.ref
        /\ result[q] = Ok(tasks[k].res.ref)

\* ================================================= callers of load only
\* Every call is `load()` (config.rs:236-238), as in
\* tests/integration_test.rs: the time argument is the clock at the call.
NextLoad ==
    \/ (\E r \in Readers : Load(r)) /\ UNCHANGED outside
    \/ Progress /\ UNCHANGED outside

SpecLoad == Init /\ [][NextLoad]_vars

\* C13 (as claimed): when readers call load on the same expired snapshot
\* with must_revalidate = false, every such read returns Ok, and, with no
\* failure ever recorded and a provider whose result is still fresh when the
\* later reader called, only one task calls the provider for that snapshot.
C13_OncePerExpiry ==
    /\ \A r \in Readers :
        (pc[r] = "done" /\ ~arcs[curr[r]].must_revalidate) =>
            result[r].kind = "Ok"
    /\ \A i, j \in TaskIds :
        ~ /\ i < j
          /\ errs = <<>>
          /\ tasks[i].obs = tasks[j].obs
          /\ ~arcs[tasks[i].obs].must_revalidate
          /\ tasks[i].res.kind = "Ok"
          /\ tasks[j].t <= arcs[tasks[i].res.ref].valid_until
          /\ tasks[j].st # "spawned"

\* C14: the step in which a task's load_data panics leaves cached_response,
\* every snapshot, revalidation_error and every recorded error as they
\* were, spawns nothing and takes the Mutex away from the task; a task that
\* panicked never runs again; and a caller that awaited the handle of a
\* panicked task ends with the panic, neither Ok nor Err.
C14_PanicIsFatal ==
    [][/\ \A k \in TaskIds :
            (tasks[k].st = "loading" /\ tasks'[k].res = Panicked) =>
                /\ cached_response' = cached_response
                /\ arcs' = arcs
                /\ revalidation_error' = revalidation_error
                /\ errs' = errs
                /\ Len(tasks') = Len(tasks)
                /\ owner' # TaskOwner(k)
       /\ \A k \in TaskIds :
            tasks[k].res = Panicked => tasks'[k] = tasks[k]
       /\ \A r \in Readers :
            (pc[r] = "await" /\ pc'[r] = "done"
                /\ tasks[HandleOf(r)].res = Panicked) =>
                    /\ result'[r] = Panicked
                    /\ result'[r].kind \notin {"Ok", "Err"}]_vars

\* C14 witness: a must_revalidate caller spawned a task whose load_data
\* panicked; the caller ended with the panic, the Mutex is free, no error
\* is remembered and the snapshot current at the spawn is still current.
C14_Witness ==
    \E k \in TaskIds :
        /\ tasks[k].res = Panicked
        /\ arcs[tasks[k].obs].must_revalidate
        /\ pc[tasks[k].by] = "done"
        /\ result[tasks[k].by] = Panicked
        /\ owner = Free
        /\ revalidation_error = 0
        /\ cached_response = tasks[k].cached0
        /\ Len(tasks) = k

\* ======================================= SerdeDataExtractor::extract
\* reqwest::header::{CACHE_CONTROL, CONTENT_TYPE} (http.rs:6, 287).
CACHE_CONTROL == "cache-control"
CONTENT_TYPE == "content-type"

\* Cargo features that select a deserializer (http.rs:298-303).
Features == {"json", "toml", "yaml", "xml"}

\* A Cache-Control header of a response: absent, bytes that are not visible
\* ASCII ("opaque"), text that CacheControl::from_value rejects, or text it
\* accepts, with or without the must-revalidate directive and with or
\* without max-age=<seconds> (an Option: <<>> or <<seconds>>).
CacheControlHeaders ==
    {[bytes |-> b, valid |-> FALSE, must_revalidate |-> FALSE, max_age |-> <<>>] :
        b \in {"absent", "opaque", "ascii"}}
    \cup
    {[bytes |-> "ascii", valid |-> TRUE, must_revalidate |-> m, max_age |-> a] :
        m \in BOOLEAN, a \in {<<>>} \cup {<<n>> : n \in 0..MaxAge}}

\* A Content-Type header of a response.
ContentTypeHeaders ==
    {[bytes |-> b, value |-> ""] : b \in {"absent", "opaque"}}
    \cup
    {[bytes |-> "ascii", value |-> v] :
        v \in {"application/json", "application/toml", "application/yaml",
               "application/xml", "text/plain"}}

\* A response body: the format in which it deserializes into Data, or
\* "garbage" (none), or "unreadable" (reading the body fails).
Bodies == Features \cup {"garbage", "unreadable"}

\* reqwest::Response as far as extract looks at it (http.rs:318-362).
Responses ==
    [success : BOOLEAN, cache_control : CacheControlHeaders,
     content_type : ContentTypeHeaders, body : Bodies]

\* DataExtractionError (http.rs:231-243), and the ToStrError that `?`
\* passes on at http.rs:326.
StatusError == [kind |-> "StatusError"]
HeaderNotFound(h) == [kind |-> "HeaderNotFound", header |-> h]
HeaderParseError(h, v) == [kind |-> "HeaderParseError", header |-> h, value |-> v]
UnsupportedContentType(t, feat) ==
    [kind |-> "UnsupportedContentType", content_type |-> t, feature |-> feat]
ContentParseError(t) == [kind |-> "ContentParseError", content_type |-> t]
ToStrError == [kind |-> "ToStrError"]

\* Option::unwrap_or (http.rs:367).
unwrap_or(opt, default) == IF opt = <<>> THEN default ELSE opt[1]

\* http.rs:276-279
parse_cache_control(h) ==
    IF h.bytes = "opaque"
    THEN HeaderParseError(CACHE_CONTROL, "<NON_ASCII_DATA>")
    ELSE IF ~h.valid
    THEN HeaderParseError(CACHE_CONTROL, "s")
    ELSE [kind |-> "CacheControl", must_revalidate |-> h.must_revalidate,
          max_age |-> h.max_age]

\* One arm of the match at http.rs:326-363: without the feature the arm
\* returns UnsupportedContentType naming `reported` and the feature; with
\* it, a body that cannot be read or deserialized is a ContentParseError.
Deserialize(feats, feature, mime, reported, body) ==
    IF feature \notin feats
    THEN UnsupportedContentType(reported, <<feature>>)
    ELSE IF body # feature
    THEN ContentParseError(mime)
    ELSE [kind |-> "Data", data |-> body]

\* http.rs:364-368
ValidUntilWithoutNow(t, cache_control) == unwrap_or(cache_control.max_age, 0)
ValidUntil(t, cache_control) == t + unwrap_or(cache_control.max_age, 0)

\* http.rs:318-369, evaluated at SystemTime::now() = t in a build with the
\* features feats.
extract(resp, feats, t) ==
    IF ~resp.success
    THEN StatusError
    ELSE IF resp.cache_control.bytes = "absent"
    THEN HeaderNotFound(CACHE_CONTROL)
    ELSE LET cache_control == parse_cache_control(resp.cache_control) IN
    IF cache_control.kind # "CacheControl"
    THEN cache_control
    ELSE IF resp.content_type.bytes = "absent"
    THEN HeaderNotFound(CACHE_CONTROL)
    ELSE IF resp.content_type.bytes = "opaque"
    THEN ToStrError
    ELSE LET content_type == resp.content_type.value
             data ==
                CASE content_type = "application/json" ->
                        Deserialize(feats, "json", "application/json",
                                    "application/json", resp.body)
                  [] content_type = "application/toml" ->
                        Deserialize(feats, "toml", "application/toml",
                                    "application/toml", resp.body)
                  [] content_type = "application/yaml" ->
                        Deserialize(feats, "yaml", "application/yaml",
                                    "application/yaml", resp.body)
                  [] content_type = "application/xml" ->
                        Deserialize(feats, "xml", "application/xml",
                                    "application/yaml", resp.body)
                  [] OTHER -> UnsupportedContentType(content_type, <<>>)
         IN
    IF data.kind # "Data"
    THEN data
    ELSE [kind |-> "Ok", data |-> data.data,
          must_revalidate |-> cache_control.must_revalidate,
          valid_until |-> ValidUntil(t, cache_control)]

\* A build of the crate with some features is handed some response; no
\* RemoteConfig is involved.
InitExtract ==
    /\ now = 0
    /\ retry_interval = 0
    /\ arcs = <<>>
    /\ cached_response = 0
    /\ errs = <<>>
    /\ revalidation_error = 0
    /\ owner = Free
    /\ waiters = <<>>
    /\ tasks = <<>>
    /\ pc = [r \in Readers |-> "idle"]
    /\ time = [r \in Readers |-> 0]
    /\ curr = [r \in Readers |-> 1]
    /\ result = [r \in Readers |-> NoResult]
    /\ failed_during = [r \in Readers |-> 0]
    /\ waited_on = [r \in Readers |-> 0]
    /\ construction = NewState("init", 0, <<>>, -1)
    /\ features \in SUBSET Features
    /\ response \in Responses
    /\ extracted = NotExtracted
    /\ handles = {}

\* http.rs:45-48: HttpDataProvider::load_data hands the response it
\* received to extractor.extract and returns what extract returns.
LoadData ==
    /\ extracted.kind = "None"
    /\ extracted' = extract(response, features, now)
    /\ UNCHANGED <<now, retry_interval, arcs, cached_response, errs,
                   revalidation_error, owner, waiters, tasks, pc, time, curr,
                   result, failed_during, waited_on, construction, features,
                   response, handles>>

NextExtract ==
    \/ LoadData
    \/ Tick /\ UNCHANGED outside

SpecExtract == InitExtract /\ [][NextExtract]_vars

\* C15 (as claimed): extract returns HeaderNotFound(h) only for a header h
\* that the response lacks; a successful response without Cache-Control
\* yields HeaderNotFound(Cache-Control), and one with a parsable
\* Cache-Control but without Content-Type yields
\* HeaderNotFound(Content-Type).
C15_HeaderNotFoundNamesAbsent ==
    extracted.kind # "None" =>
        /\ extracted = HeaderNotFound(CACHE_CONTROL) =>
            response.cache_control.bytes = "absent"
        /\ extracted = HeaderNotFound(CONTENT_TYPE) =>
            response.content_type.bytes = "absent"
        /\ (response.success /\ response.cache_control.bytes = "absent") =>
            extracted = HeaderNotFound(CACHE_CONTROL)
        /\ (response.success /\ response.cache_control.valid
                /\ response.content_type.bytes = "absent") =>
            extracted = HeaderNotFound(CONTENT_TYPE)

\* The content types this build has a deserializer for (http.rs:298-303).
Recognised ==
    {[bytes |-> "ascii", value |-> "application/" \o f] : f \in features}

\* C16 (as claimed): extract decides in a fixed order.  A non-success
\* status gives StatusError whatever else the response holds; otherwise a
\* missing or unparsable Cache-Control gives a header error; otherwise a
\* Content-Type that is present but not one this build recognises gives
\* UnsupportedContentType; otherwise a body that does not deserialize gives
\* ContentParseError; and only a response that passes all of these gives
\* Ok.
C16_CheckOrder ==
    extracted.kind # "None" =>
        LET cc_ok == response.cache_control.valid
            ct_present == response.content_type.bytes # "absent"
            ct_ok == response.content_type \in Recognised
            body_ok == "application/" \o response.body = response.content_type.value
        IN  /\ ~response.success => extracted = StatusError
            /\ (response.success /\ ~cc_ok) =>
                extracted.kind \in {"HeaderNotFound", "HeaderParseError"}
            /\ (response.success /\ cc_ok /\ ct_present /\ ~ct_ok) =>
                extracted.kind = "UnsupportedContentType"
            /\ (response.success /\ cc_ok /\ ct_ok /\ ~body_ok) =>
                extracted.kind = "ContentParseError"
            /\ extracted.kind = "Ok" =>
                response.success /\ cc_ok /\ ct_ok /\ body_ok

\* C17: when extract returns Ok, the result's must_revalidate is the
\* presence of the must-revalidate directive in the response's
\* Cache-Control, and its valid_until is the clock at the extraction plus
\* max-age, or the clock itself when max-age is absent; with a positive
\* max-age the result is not stale for a read at the time of extraction.
C17_ExpiryFromMaxAge ==
    [][(extracted.kind = "None" /\ extracted'.kind = "Ok") =>
        LET max_age == response.cache_control.max_age IN
        /\ extracted'.must_revalidate = response.cache_control.must_revalidate
        /\ max_age = <<>> => extracted'.valid_until = now
        /\ max_age # <<>> => extracted'.valid_until - now = max_age[1]
        /\ (max_age # <<>> /\ max_age[1] > 0) =>
            /\ now < extracted'.valid_until
            /\ ~IsStale(extracted', now)]_vars

\* C17 witness: a response with `must-revalidate, max-age=1` was extracted
\* when the clock was past 0, giving a must_revalidate result that expires
\* one second later.
C17_Witness ==
    /\ extracted.kind = "Ok"
    /\ extracted.must_revalidate
    /\ response.cache_control.max_age = <<1>>
    /\ now > 0
    /\ extracted.valid_until = now + 1

\* C18 (as claimed): load_with_time(t) returns on the fresh path, without
\* going to try_lock, exactly when t is before the valid_until of the
\* current snapshot; a call with t equal to valid_until goes to try_lock.
C18_StrictAtExpiry ==
    [][\A r \in Readers, t \in Times :
        LoadWithTime(r, t) =>
            /\ t < arcs[cached_response].valid_until => pc'[r] = "done"
            /\ t >= arcs[cached_response].valid_until => pc'[r] = "try_lock"]_vars

\* C19: when a reader holds the Mutex after a successful try_lock while an
\* error with timestamp f is remembered and its time is before
\* f + retry_interval, its next step spawns no task, leaves cached_response,
\* the snapshots, revalidation_error and the recorded errors as they were,
\* gives up the Mutex, and ends the call with the remembered Arc of the
\* error if the observed snapshot has must_revalidate, else with Ok of the
\* observed stale snapshot.
C19_BackoffQuickReturn ==
    [][\A r \in Readers :
        (/\ pc[r] = "locked"
         /\ pc'[r] # "locked"
         /\ revalidation_error # 0
         /\ time[r] < errs[revalidation_error].timestamp + retry_interval) =>
            /\ tasks' = tasks
            /\ cached_response' = cached_response
            /\ arcs' = arcs
            /\ revalidation_error' = revalidation_error
            /\ errs' = errs
            /\ owner' # ReaderOwner(r)
            /\ pc'[r] = "done"
            /\ result'[r] =
                IF arcs[curr[r]].must_revalidate
                THEN Err(revalidation_error)
                ELSE Ok(curr[r])]_vars

\* C19 witness: a reader that spawned no task and never failed a try_lock in
\* its call has returned the remembered error for a must_revalidate
\* snapshot inside the retry interval, and the Mutex it gave up went to the
\* other reader, which was suspended in lock().
C19_Witness ==
    \E r, q \in Readers :
        /\ r # q
        /\ pc[r] = "done"
        /\ arcs[curr[r]].must_revalidate
        /\ revalidation_error # 0
        /\ result[r] = Err(revalidation_error)
        /\ time[r] < errs[revalidation_error].timestamp + retry_interval
        /\ failed_during[r] = 0
        /\ waited_on[r] = 0
        /\ \A k \in TaskIds : tasks[k].by # r /\ tasks[k].st = "done"
        /\ pc[q] = "guard"
        /\ owner = ReaderOwner(q)

\* C20: when a reader holds the Mutex after a successful try_lock while an
\* error with timestamp f is remembered and its time equals
\* f + retry_interval, its next step spawns a revalidation task that takes
\* over the Mutex; and a caller that awaited a task which finished with Ok
\* returns the snapshot that task published, newer than the one the caller
\* observed.
C20_RetryAtWindowEnd ==
    [][/\ \A r \in Readers :
            (/\ pc[r] = "locked"
             /\ pc'[r] # "locked"
             /\ revalidation_error # 0
             /\ time[r] = errs[revalidation_error].timestamp + retry_interval) =>
                /\ Len(tasks') = Len(tasks) + 1
                /\ tasks'[Len(tasks')].by = r
                /\ tasks'[Len(tasks')].st = "spawned"
                /\ owner' = TaskOwner(Len(tasks'))
                /\ arcs[curr[r]].must_revalidate => pc'[r] = "await"
       /\ \A r \in Readers :
            (/\ pc[r] = "await"
             /\ pc'[r] = "done"
             /\ tasks[HandleOf(r)].res.kind = "Ok") =>
                /\ result'[r] = Ok(tasks[HandleOf(r)].res.ref)
                /\ tasks[HandleOf(r)].res.ref > curr[r]
                /\ tasks[HandleOf(r)].res.ref > tasks[HandleOf(r)].cached0]_vars

\* C20 witness: task k-1 recorded an error at f; a must_revalidate caller
\* with time exactly f + retry_interval (retry_interval > 0) spawned task k,
\* which finished with Ok, and the caller returned the snapshot it
\* published; no error is remembered any more.
C20_Witness ==
    \E k \in TaskIds :
        /\ k > 1
        /\ retry_interval > 0
        /\ tasks[k-1].res.kind = "Err"
        /\ tasks[k].t = errs[tasks[k-1].res.ref].timestamp + retry_interval
        /\ arcs[tasks[k].obs].must_revalidate
        /\ tasks[k].res.kind = "Ok"
        /\ pc[tasks[k].by] = "done"
        /\ result[tasks[k].by] = tasks[k].res
        /\ result[tasks[k].by].ref > tasks[k].obs
        /\ revalidation_error = 0

\* C21: a task that has stored its result still holds the Mutex; the step
\* that ends it with Ok leaves the stored result current and clears
\* revalidation_error while the task is the holder; and whenever no task
\* holds the Mutex and the last task ended with Ok, no error is remembered
\* and the current snapshot is the one that task published, so that is
\* what any reader taking the Mutex afterwards finds.
C21_SuccessBeforeRelease ==
    /\ [](\A k \in TaskIds :
            tasks[k].st = "stored" =>
                owner = TaskOwner(k) /\ cached_response > tasks[k].cached0)
    /\ []((/\ owner.kind # "task"
            /\ tasks # <<>>
            /\ tasks[Len(tasks)].res.kind = "Ok") =>
                /\ revalidation_error = 0
                /\ cached_response = tasks[Len(tasks)].res.ref
                /\ cached_response > tasks[Len(tasks)].cached0)
    /\ [][\A k \in TaskIds :
            (tasks[k].st = "stored" /\ tasks'[k].st = "done") =>
                /\ owner = TaskOwner(k)
                /\ tasks'[k].res = Ok(cached_response)
                /\ cached_response' = cached_response
                /\ revalidation_error' = 0]_vars

\* C21 witness: a reader was suspended in lock() during a task that ended
\* with Ok; it now holds the Mutex and finds no remembered error and the
\* snapshot that task published.
C21_Witness ==
    \E q \in Readers :
        /\ owner = ReaderOwner(q)
        /\ pc[q] = "guard"
        /\ waited_on[q] = Len(tasks)
        /\ tasks # <<>>
        /\ tasks[Len(tasks)].res.kind = "Ok"
        /\ revalidation_error = 0
        /\ cached_response = tasks[Len(tasks)].res.ref
        /\ cached_response > curr[q]

\* The pair (current snapshot, remembered error) that the first k tasks
\* leave behind: construction leaves (1, none); a task that ended with Ok
\* leaves (its snapshot, none); one that ended with Err leaves the snapshot
\* as it was and its error; one that panicked leaves the pair as it was.
RECURSIVE PairAfter(_)
PairAfter(k) ==
    IF k = 0 THEN <<1, 0>>
    ELSE IF tasks[k].res.kind = "Ok" THEN <<tasks[k].res.ref, 0>>
    ELSE IF tasks[k].res.kind = "Err" THEN <<PairAfter(k - 1)[1], tasks[k].res.ref>>
    ELSE PairAfter(k - 1)

\* C22: a task holds the Mutex from its spawn until it has ended; the
\* Mutex passes from the reader whose try_lock succeeded to the task it
\* spawns without being free in between; and whenever a reader holds the
\* Mutex, every task has ended and the pair (current snapshot, remembered
\* error) is the one the tasks ended so far, or construction, left behind.
C22_GateHeldThroughAttempt ==
    /\ [](\A k \in TaskIds : tasks[k].st # "done" => owner = TaskOwner(k))
    /\ [](owner.kind = "reader" =>
            /\ \A k \in TaskIds : tasks[k].st = "done"
            /\ <<cached_response, revalidation_error>> = PairAfter(Len(tasks)))
    /\ [][\A r \in Readers :
            (owner = ReaderOwner(r) /\ Len(tasks') > Len(tasks)) =>
                /\ tasks'[Len(tasks')].by = r
                /\ owner' = TaskOwner(Len(tasks'))]_vars

\* C22 witness: a reader holds the Mutex after a successful try_lock while
\* the last of the tasks ended with Err: it finds the error of that task
\* and the snapshot that was current when that task was spawned.
C22_Witness ==
    \E r \in Readers :
        /\ owner = ReaderOwner(r)
        /\ pc[r] = "locked"
        /\ tasks # <<>>
        /\ tasks[Len(tasks)].res.kind = "Err"
        /\ revalidation_error = tasks[Len(tasks)].res.ref
        /\ cached_response = tasks[Len(tasks)].cached0

\* ===================================================== fair scheduling
\* The steps of reader r after the entry of its call (config.rs:162-226).
ReaderProgress(r) ==
    \/ TryLock(r)
    \/ Lock(r)
    \/ WaiterReturn(r)
    \/ BackoffReturn(r)
    \/ Spawn(r)
    \/ Join(r)

\* The runtime polls every spawned task and every call that can make
\* progress, and every provider call terminates (by Ok, Err or panic).
\* Calls are entered, and the clock advances, at will.
LiveSpec ==
    /\ Init
    /\ [][Next]_vars
    /\ WF_vars(TaskProgress /\ UNCHANGED outside)
    /\ \A r \in Readers : WF_vars(ReaderProgress(r) /\ UNCHANGED outside)

\* C23: under fair scheduling with terminating provider calls, every call
\* that observed an expired must_revalidate snapshot comes to its end,
\* whether it is suspended in lock() or awaits the handle of its own task;
\* and whenever every call has ended and every task has ended, the Mutex
\* is free.
C23_CallsTerminate ==
    /\ \A r \in Readers :
        (pc[r] \notin {"idle", "done"} /\ arcs[curr[r]].must_revalidate)
            ~> (pc[r] = "done")
    /\ []((/\ \A r \in Readers : pc[r] \in {"idle", "done"}
           /\ \A k \in TaskIds : tasks[k].st = "done") => owner = Free)

\* C23 witness: one must_revalidate call awaited its own task and another
\* was suspended in lock() during that task; both have ended, the task has
\* ended, and the Mutex is free.
C23_Witness ==
    \E r, q \in Readers :
        /\ r # q
        /\ tasks # <<>>
        /\ \A k \in TaskIds : tasks[k].st = "done"
        /\ tasks[Len(tasks)].by = r
        /\ arcs[tasks[Len(tasks)].obs].must_revalidate
        /\ pc[r] = "done" /\ result[r] = tasks[Len(tasks)].res
        /\ pc[q] = "done" /\ waited_on[q] = Len(tasks)
        /\ arcs[curr[q]].must_revalidate
        /\ owner = Free

\* C24: the store of task k publishes a snapshot that did not exist before,
\* the one after the snapshot current at its spawn; the failure of task k
\* allocates an error that did not exist before and remembers it; and a
\* must_revalidate caller that awaited the handle of its own task k ends
\* with Ok of exactly the snapshot task k published, or with Err of exactly
\* the error task k remembered.
C24_OwnOutcome ==
    [][/\ \A k \in TaskIds :
            (tasks[k].st = "loading" /\ tasks'[k].st = "stored") =>
                /\ cached_response' \notin 1..Len(arcs)
                /\ cached_response' = tasks[k].cached0 + 1
       /\ \A k \in TaskIds :
            (tasks[k].st = "loading" /\ tasks'[k].res.kind = "Err") =>
                /\ revalidation_error' \notin 1..Len(errs)
                /\ tasks'[k].res.ref = revalidation_error'
       /\ \A r \in Readers :
            (pc[r] = "await" /\ pc'[r] = "done") =>
                LET k == HandleOf(r) IN
                /\ tasks[k].by = r
                /\ tasks[k].t = time[r]
                /\ tasks[k].res.kind = "Ok" =>
                    result'[r] = Ok(tasks[k].cached0 + 1)
                /\ tasks[k].res.kind = "Err" =>
                    /\ result'[r].kind = "Err"
                    /\ result'[r].ref = tasks[k].res.ref
                    /\ errs[result'[r].ref].timestamp <= now]_vars

\* C24 witness: a must_revalidate caller has ended with Ok of the snapshot
\* its own task published, while a later task has already published a
\* newer one.
C24_Witness ==
    \E r \in Readers, k \in TaskIds :
        /\ tasks[k].by = r
        /\ k < Len(tasks)
        /\ arcs[tasks[k].obs].must_revalidate
        /\ tasks[k].res.kind = "Ok"
        /\ pc[r] = "done"
        /\ result[r] = Ok(tasks[k].cached0 + 1)
        /\ cached_response > tasks[k].cached0 + 1

\* C25: cached_response changes only in the store of a task that holds the
\* Mutex; revalidation_error changes only in the last step of a task that
\* holds the Mutex, to a new error when the task ends with Err and to none
\* when it ends with Ok; and no step of a call (its entry on the fresh or
\* the stale path, a try_lock, a lock(), the return of a waiter, a backoff
\* return, a spawn, the end of an await) changes either.
C25_Frame ==
    [][/\ cached_response' # cached_response =>
            \E k \in TaskIds :
                /\ owner = TaskOwner(k)
                /\ tasks[k].st = "loading"
                /\ tasks'[k].st = "stored"
       /\ revalidation_error' # revalidation_error =>
            \E k \in TaskIds :
                /\ owner = TaskOwner(k)
                /\ tasks[k].st # "done"
                /\ tasks'[k].st = "done"
                /\ \/ tasks'[k].res.kind = "Err" /\ revalidation_error' # 0
                   \/ tasks'[k].res.kind = "Ok" /\ revalidation_error' = 0
       /\ (\E r \in Readers :
                \/ \E t \in Times : LoadWithTime(r, t)
                \/ ReaderProgress(r)) =>
            /\ cached_response' = cached_response
            /\ arcs' = arcs
            /\ revalidation_error' = revalidation_error
            /\ errs' = errs]_vars

\* C25 witness: the only task ended with Err and remembered its error; its
\* caller r got that error from the await, the other reader q then came
\* in, took the Mutex, and returned the same remembered error from the
\* backoff check without spawning; the snapshot is still the first one.
C25_Witness ==
    \E r, q \in Readers :
        /\ r # q
        /\ Len(tasks) = 1
        /\ tasks[1].by = r
        /\ tasks[1].st = "done"
        /\ tasks[1].res = Err(revalidation_error)
        /\ revalidation_error # 0
        /\ cached_response = 1
        /\ Len(arcs) = 1
        /\ pc[r] = "done" /\ result[r] = Err(revalidation_error)
        /\ pc[q] = "done" /\ result[q] = Err(revalidation_error)
        /\ failed_during[q] = 0
        /\ waited_on[q] = 0
        /\ owner = Free

\* Number of load_data calls that have returned Ok up to and including
\* task k, the one of RemoteConfig::new (config.rs:135) counted first.
RECURSIVE Fetched(_)
Fetched(k) ==
    IF k = 0 THEN 1
    ELSE Fetched(k - 1)
            + (IF tasks[k].st = "stored" \/ tasks[k].res.kind = "Ok"
               THEN 1 ELSE 0)

\* C26: in every reachable state there are exactly as many published
\* snapshots as load_data calls that returned Ok (the one of new included),
\* the current snapshot is the last of them and carries the data of the
\* most recent successful call, a task that ended with Err or a panic
\* published nothing, the n-th successful call published the n-th
\* snapshot, and the tasks ran one after another in the order of spawning.
C26_CurrentIsLastFetch ==
    /\ Len(arcs) = Fetched(Len(tasks))
    /\ cached_response = Len(arcs)
    /\ arcs[cached_response].data = Fetched(Len(tasks))
    /\ \A i \in 1..Len(arcs) : arcs[i].data = i
    /\ \A k \in TaskIds :
        /\ tasks[k].st # "done" => k = Len(tasks)
        /\ tasks[k].st = "stored" => cached_response = Fetched(k)
        /\ tasks[k].res.kind = "Ok" => tasks[k].res.ref = Fetched(k)
        /\ (tasks[k].st = "done" /\ tasks[k].res.kind # "Ok") =>
                Fetched(k) = Fetched(k - 1)

\* C26 witness: the first task failed and published nothing, the second
\* succeeded, and its snapshot, the second one, is current.
C26_Witness ==
    /\ Len(tasks) = 2
    /\ tasks[1].res.kind = "Err"
    /\ tasks[2].st = "done"
    /\ tasks[2].res = Ok(2)
    /\ cached_response = 2
    /\ Len(arcs) = 2
    /\ arcs[2].data = 2

\* C27: the snapshot carried by an Ok result of a call is the one that was
\* current when the call loaded `curr` or one published after it, never an
\* earlier one; cached_response never moves back to an earlier snapshot;
\* and the next call of a caller whose last call returned Ok starts from a
\* snapshot that is no older than the one that call returned, so that its
\* own Ok result is no older either.
C27_ReadsNeverGoBack ==
    /\ [](\A r \in Readers :
            result[r].kind = "Ok" =>
                /\ result[r].ref >= curr[r]
                /\ result[r].ref <= cached_response)
    /\ [][/\ cached_response' >= cached_response
          /\ \A r \in Readers :
                /\ (result[r].kind = "Ok" /\ pc[r] = "done" /\ pc'[r] # "done") =>
                        curr'[r] >= result[r].ref
                /\ (result[r].kind = "Ok" /\ result'[r].kind = "Ok") =>
                        result'[r].ref >= result[r].ref]_vars

\* C27 witness: reader r began a call when the second snapshot was
\* current, found the Mutex taken, waited for the task that held it, and
\* returned the third snapshot, published after the call began.
C27_Witness ==
    \E r \in Readers :
        /\ pc[r] = "done"
        /\ result[r].kind = "Ok"
        /\ result[r].ref > curr[r]
        /\ waited_on[r] # 0
        /\ curr[r] > 1

\* ------------------------------ NonStaticRemoteConfig for Arc<RemoteConfig>
\* config.rs:250-338.  The coordinator is reached through Arc handles
\* instead of a `&'static` reference; it is freed when the last handle is
\* dropped.  `handles` holds the live handles: the one each caller calls
\* through and the `cloned` one of each running task.
ReaderArc(r) == [kind |-> "reader", id |-> r]
ClonedArc(k) == [kind |-> "task", id |-> k]

\* The RemoteConfig behind the handles is allocated: `self_static`
\* (config.rs:256) and the `&'static Mutex` inside a guard point to it.
Alive == handles # {}

\* RemoteConfig::new has returned Ok and the value was put into an Arc, of
\* which every caller holds a clone.
InitArc ==
    /\ now = 0
    /\ retry_interval \in 0..MaxRetry
    /\ \E first \in DataLoadResults(1) : arcs = <<first>>
    /\ cached_response = 1
    /\ errs = <<>>
    /\ revalidation_error = 0
    /\ owner = Free
    /\ waiters = <<>>
    /\ tasks = <<>>
    /\ pc = [r \in Readers |-> "idle"]
    /\ time = [r \in Readers |-> 0]
    /\ curr = [r \in Readers |-> 1]
    /\ result = [r \in Readers |-> NoResult]
    /\ failed_during = [r \in Readers |-> 0]
    /\ waited_on = [r \in Readers |-> 0]
    /\ construction = NewState("ok", 1, arcs, -1)
    /\ features = {}
    /\ response = NoResponse
    /\ extracted = NotExtracted
    /\ handles = {ReaderArc(r) : r \in Readers}

\* config.rs:252-258 and 331-332: `&self` borrows the caller's handle for
\* the whole call; bind `time`, load `curr`, derive `self_static`, test
\* freshness; fresh data is returned at once.
NsLoadWithTime(r, t) ==
    /\ ReaderArc(r) \in handles
    /\ pc[r] \in {"idle", "done"}
    /\ IsStale(arcs[cached_response], t) => Len(tasks) + Cardinality(MaySpawn) < MaxAttempts
    /\ time' = [time EXCEPT ![r] = t]
    /\ curr' = [curr EXCEPT ![r] = cached_response]
    /\ failed_during' = [failed_during EXCEPT ![r] = 0]
    /\ waited_on' = [waited_on EXCEPT ![r] = 0]
    /\ IF arcs[cached_response].valid_until < t
       THEN /\ pc' = [pc EXCEPT ![r] = "try_lock"]
            /\ result' = [result EXCEPT ![r] = NoResult]
       ELSE /\ pc' = [pc EXCEPT ![r] = "done"]
            /\ result' = [result EXCEPT ![r] = Ok(cached_response)]
    /\ UNCHANGED <<now, retry_interval, arcs, cached_response, errs,
                   revalidation_error, owner, waiters, tasks, handles>>

\* config.rs:335-337: load() is load_with_time(SystemTime::now()).
NsLoad(r) == NsLoadWithTime(r, now)

\* config.rs:259-262 and 274-282: self_static.revalidator.try_lock(), and
\* on failure the choice between waiting and returning the stale `curr`.
NsTryLock(r) ==
    /\ pc[r] = "try_lock"
    /\ IF owner = Free
       THEN /\ owner' = ReaderOwner(r)
            /\ pc' = [pc EXCEPT ![r] = "locked"]
            /\ UNCHANGED <<result, failed_during>>
       ELSE /\ failed_during' =
                [failed_during EXCEPT
                    ![r] = IF owner.kind = "task" THEN owner.id ELSE 0]
            /\ IF arcs[curr[r]].must_revalidate
               THEN /\ pc' = [pc EXCEPT ![r] = "lock"]
                    /\ UNCHANGED result
               ELSE /\ pc' = [pc EXCEPT ![r] = "done"]
                    /\ result' = [result EXCEPT ![r] = Ok(curr[r])]
            /\ UNCHANGED owner
    /\ UNCHANGED <<now, retry_interval, arcs, cached_response, errs,
                   revalidation_error, waiters, tasks, time, curr,
                   waited_on, handles>>

\* config.rs:264: `self_static.revalidator.lock().await`.
NsLock(r) ==
    /\ pc[r] = "lock"
    /\ IF owner = Free
       THEN /\ owner' = ReaderOwner(r)
            /\ pc' = [pc EXCEPT ![r] = "guard"]
            /\ UNCHANGED <<waiters, waited_on>>
       ELSE /\ waiters' = Append(waiters, r)
            /\ pc' = [pc EXCEPT ![r] = "queued"]
            /\ waited_on' =
                [waited_on EXCEPT
                    ![r] = IF owner.kind = "task" THEN owner.id ELSE 0]
            /\ UNCHANGED owner
    /\ UNCHANGED <<now, retry_interval, arcs, cached_response, errs,
                   revalidation_error, tasks, time, curr, result,
                   failed_during, handles>>

\* config.rs:266-273: holding the guard, return the remembered error or
\* `self_static.cached_response.load()`; the guard is dropped.
NsWaiterReturn(r) ==
    /\ pc[r] = "guard"
    /\ result' =
        [result EXCEPT
            ![r] = IF revalidation_error # 0
                   THEN Err(revalidation_error)
                   ELSE Ok(cached_response)]
    /\ pc' = Wake([pc EXCEPT ![r] = "done"])
    /\ owner' = NextOwner
    /\ waiters' = RestWaiters
    /\ UNCHANGED <<now, retry_interval, arcs, cached_response, errs,
                   revalidation_error, tasks, time, curr, failed_during,
                   waited_on, handles>>

\* config.rs:284-293: the quick return inside the retry interval.
NsBackoffReturn(r) ==
    /\ pc[r] = "locked"
    /\ revalidation_error # 0
    /\ time[r] < errs[revalidation_error].timestamp + retry_interval
    /\ result' =
        [result EXCEPT
            ![r] = IF arcs[curr[r]].must_revalidate
                   THEN Err(revalidation_error)
                   ELSE Ok(curr[r])]
    /\ pc' = Wake([pc EXCEPT ![r] = "done"])
    /\ owner' = NextOwner
    /\ waiters' = RestWaiters
    /\ UNCHANGED <<now, retry_interval, arcs, cached_response, errs,
                   revalidation_error, tasks, time, curr, failed_during,
                   waited_on, handles>>

\* config.rs:296  `let cloned = self.clone();` the task gets a handle of
\* its own, moved into it together with the guard (config.rs:298).
ClonedNothing(k) == {}
Cloned(k) == {ClonedArc(k)}

\* config.rs:296-298 and 320-326: clone the handle, spawn the task with
\* the guard and the clone; a must_revalidate caller awaits the handle of
\* the task, any other returns the stale `curr` at once.
NsSpawn(r) ==
    /\ pc[r] = "locked"
    /\ ~(/\ revalidation_error # 0
         /\ time[r] < errs[revalidation_error].timestamp + retry_interval)
    /\ handles' = handles \cup Cloned(Len(tasks) + 1)
    /\ tasks' = Append(tasks,
                    [st |-> "spawned", by |-> r, obs |-> curr[r],
                     t |-> time[r], cached0 |-> cached_response,
                     res |-> NoResult])
    /\ owner' = TaskOwner(Len(tasks) + 1)
    /\ waited_on' =
        [q \in Readers |->
            IF q \in Queued THEN Len(tasks) + 1 ELSE waited_on[q]]
    /\ IF arcs[curr[r]].must_revalidate
       THEN /\ pc' = [pc EXCEPT ![r] = "await"]
            /\ UNCHANGED result
       ELSE /\ pc' = [pc EXCEPT ![r] = "done"]
            /\ result' = [result EXCEPT ![r] = Ok(curr[r])]
    /\ UNCHANGED <<now, retry_interval, arcs, cached_response, errs,
                   revalidation_error, waiters, time, curr, failed_during>>

\* config.rs:322: `handle.await.unwrap()`.
NsJoin(r) ==
    /\ pc[r] = "await"
    /\ tasks[HandleOf(r)].st = "done"
    /\ result' = [result EXCEPT ![r] = tasks[HandleOf(r)].res]
    /\ pc' = [pc EXCEPT ![r] = "done"]
    /\ UNCHANGED <<now, retry_interval, arcs, cached_response, errs,
                   revalidation_error, owner, waiters, tasks, time, curr,
                   failed_during, waited_on, handles>>

\* config.rs:299: the task is polled and calls data_provider.load_data().
NsTaskStart(k) ==
    /\ tasks[k].st = "spawned"
    /\ tasks' = [tasks EXCEPT ![k].st = "loading"]
    /\ UNCHANGED <<now, retry_interval, arcs, cached_response, errs,
                   revalidation_error, owner, waiters, pc, time, curr,
                   result, failed_during, waited_on, handles>>

\* config.rs:300-301: `cloned.cached_response.store(Arc::new(load_result))`.
NsTaskStore(k, res) ==
    /\ tasks[k].st = "loading"
    /\ arcs' = Append(arcs, res)
    /\ cached_response' = Len(arcs')
    /\ tasks' = [tasks EXCEPT ![k].st = "stored"]
    /\ UNCHANGED <<now, retry_interval, errs, revalidation_error, owner,
                   waiters, pc, time, curr, result, failed_during,
                   waited_on, handles>>

\* config.rs:302-303 and the end of the task: the remembered error is
\* cleared, the task returns Ok(cloned.cached_response.load()); of the two
\* captured values `guard`, captured first, is dropped first and `cloned`
\* after it.
NsTaskFinishOk(k) ==
    /\ tasks[k].st = "stored"
    /\ revalidation_error' = 0
    /\ tasks' = [tasks EXCEPT ![k].st = "done", ![k].res = Ok(cached_response)]
    /\ owner' = NextOwner
    /\ waiters' = RestWaiters
    /\ pc' = Wake(pc)
    /\ handles' = handles \ {ClonedArc(k)}
    /\ UNCHANGED <<now, retry_interval, arcs, cached_response, errs, time,
                   curr, result, failed_during, waited_on>>

\* config.rs:305-316 with 101-108: load_data returned Err; it is wrapped
\* with SystemTime::now() in a new Arc and remembered; `guard` and then
\* `cloned` are dropped.
NsTaskErr(k) ==
    /\ tasks[k].st = "loading"
    /\ errs' = Append(errs, [timestamp |-> now])
    /\ revalidation_error' = Len(errs) + 1
    /\ tasks' = [tasks EXCEPT ![k].st = "done", ![k].res = Err(Len(errs) + 1)]
    /\ owner' = NextOwner
    /\ waiters' = RestWaiters
    /\ pc' = Wake(pc)
    /\ handles' = handles \ {ClonedArc(k)}
    /\ UNCHANGED <<now, retry_interval, arcs, cached_response, time, curr,
                   result, failed_during, waited_on>>

\* config.rs:299: load_data panics; the task unwinds, which drops `guard`
\* and then `cloned`.
NsTaskPanic(k) ==
    /\ tasks[k].st = "loading"
    /\ tasks' = [tasks EXCEPT ![k].st = "done", ![k].res = Panicked]
    /\ owner' = NextOwner
    /\ waiters' = RestWaiters
    /\ pc' = Wake(pc)
    /\ handles' = handles \ {ClonedArc(k)}
    /\ UNCHANGED <<now, retry_interval, arcs, cached_response, errs,
                   revalidation_error, time, curr, result, failed_during,
                   waited_on>>

\* A caller drops its Arc<RemoteConfig>.  The future of a call borrows the
\* handle (`&self`, config.rs:252), so it cannot be dropped during a call.
DropArc(r) ==
    /\ ReaderArc(r) \in handles
    /\ pc[r] \in {"idle", "done"}
    /\ handles' = handles \ {ReaderArc(r)}
    /\ UNCHANGED <<now, retry_interval, arcs, cached_response, errs,
                   revalidation_error, owner, waiters, tasks, pc, time,
                   curr, result, failed_during, waited_on>>

\* A caller without a handle is given a clone of another caller's
\* (`Self: Clone`, config.rs:243).
CloneArc(r) ==
    /\ ReaderArc(r) \notin handles
    /\ \E q \in Readers : ReaderArc(q) \in handles
    /\ handles' = handles \cup {ReaderArc(r)}
    /\ UNCHANGED <<now, retry_interval, arcs, cached_response, errs,
                   revalidation_error, owner, waiters, tasks, pc, time,
                   curr, result, failed_during, waited_on>>

\* What neither variant of load_with_time touches.
beside == <<construction, features, response, extracted>>

NsReaderStep(r) ==
    \/ NsLoad(r)
    \/ \E t \in Times : NsLoadWithTime(r, t)
    \/ NsTryLock(r)
    \/ NsLock(r)
    \/ NsWaiterReturn(r)
    \/ NsBackoffReturn(r)
    \/ NsSpawn(r)
    \/ NsJoin(r)

NsTaskStep(k) ==
    \/ NsTaskStart(k)
    \/ \E res \in DataLoadResults(Len(arcs) + 1) : NsTaskStore(k, res)
    \/ NsTaskFinishOk(k)
    \/ NsTaskErr(k)
    \/ NsTaskPanic(k)

NextArc ==
    \/ (\E r \in Readers : NsReaderStep(r)) /\ UNCHANGED beside
    \/ (\E k \in 1..Len(tasks) : NsTaskStep(k)) /\ UNCHANGED beside
    \/ (\E r \in Readers : DropArc(r)) /\ UNCHANGED beside
    \/ (\E r \in Readers : CloneArc(r)) /\ UNCHANGED beside
    \/ Tick /\ UNCHANGED outside

SpecArc == InitArc /\ [][NextArc]_vars

\* C28: calls made through Arc handles behave as calls made through a
\* `&'static` reference.  (1) The RemoteConfig that `self_static` and the
\* guards point to is allocated whenever a call is in progress, the Mutex
\* is held or a task has not ended, so every dereference is of live
\* memory.  (2) Every step of the Arc variant is, on the coordinator's
\* state (results, provider calls, snapshot, remembered error, Mutex), the
\* step of the 'static variant by the same caller or task with the same
\* time and the same provider outcome.  (3) Whatever step the 'static
\* variant could take in a state, the Arc variant can take too, for every
\* caller that holds a handle and for every task.
C28_ArcEquivalent ==
    /\ [](/\ \A r \in Readers :
                pc[r] \notin {"idle", "done"} => ReaderArc(r) \in handles
          /\ owner # Free => Alive
          /\ \A k \in 1..Len(tasks) : tasks[k].st # "done" => Alive)
    /\ [][/\ \A r \in Readers :
                /\ \A t \in Times : NsLoadWithTime(r, t) => LoadWithTime(r, t)
                /\ NsTryLock(r) => TryLock(r)
                /\ NsLock(r) => Lock(r)
                /\ NsWaiterReturn(r) => WaiterReturn(r)
                /\ NsBackoffReturn(r) => BackoffReturn(r)
                /\ NsSpawn(r) => Spawn(r)
                /\ NsJoin(r) => Join(r)
          /\ \A k \in 1..Len(tasks) :
                /\ NsTaskStart(k) => TaskStart(k)
                /\ \A res \in DataLoadResults(Len(arcs) + 1) :
                        NsTaskStore(k, res) => TaskStore(k, res)
                /\ NsTaskFinishOk(k) => TaskFinishOk(k)
                /\ NsTaskErr(k) => TaskErr(k)
                /\ NsTaskPanic(k) => TaskPanic(k)]_vars
    /\ [](/\ \A r \in Readers :
                /\ \A t \in Times :
                        (ReaderArc(r) \in handles /\ ENABLED LoadWithTime(r, t))
                            => ENABLED NsLoadWithTime(r, t)
                /\ ENABLED TryLock(r) => ENABLED NsTryLock(r)
                /\ ENABLED Lock(r) => ENABLED NsLock(r)
                /\ ENABLED WaiterReturn(r) => ENABLED NsWaiterReturn(r)
                /\ ENABLED BackoffReturn(r) => ENABLED NsBackoffReturn(r)
                /\ ENABLED Spawn(r) => ENABLED NsSpawn(r)
                /\ ENABLED Join(r) => ENABLED NsJoin(r)
          /\ \A k \in 1..Len(tasks) :
                /\ ENABLED TaskStart(k) => ENABLED NsTaskStart(k)
                /\ \A res \in DataLoadResults(Len(arcs) + 1) :
                        ENABLED TaskStore(k, res) => ENABLED NsTaskStore(k, res)
                /\ ENABLED TaskFinishOk(k) => ENABLED NsTaskFinishOk(k)
                /\ ENABLED TaskErr(k) => ENABLED NsTaskErr(k)
                /\ ENABLED TaskPanic(k) => ENABLED NsTaskPanic(k))

\* C28 witness: a caller whose stale snapshot need not be revalidated
\* spawned a task and returned the stale snapshot at once; every caller
\* has dropped its handle since; the task, kept going by its own clone,
\* has published the second snapshot and still holds the Mutex.
C28_Witness ==
    /\ Len(tasks) = 1
    /\ tasks[1].st = "stored"
    /\ owner = TaskOwner(1)
    /\ cached_response = 2
    /\ handles = {ClonedArc(1)}
    /\ pc[tasks[1].by] = "done"
    /\ result[tasks[1].by] = Ok(1)
====
